---- MODULE Spec2Model ----
\* Order matching engine: the book that persists through the order repository
\* (BookImpl with orderRepo), its match loop, cancellation and snapshot reads,
\* together with the order store (tbl_orders, tbl_order_history_events).
EXTENDS Integers, Sequences, FiniteSets, TLC

\* ---------------------------------------------------------------- bounds
\* client requests in one run (submissions and cancellations together)
MaxRequests == 3
MaxPrice == 2
MaxAmount == 2
MaxAccount == 2
\* store calls that fail in one run
MaxStoreFailures == 1
\* producers blocked on the channel at once
MaxPending == 2

\* ---------------------------------------------------------------- constants
ASK == 0
BID == 1

Pairs == {"X", "Y"}
Prices == 1..MaxPrice
Amounts == 1..MaxAmount
Accounts == 1..MaxAccount
Types == {ASK, BID}

VARIABLES askTreesMap, bidTreesMap, mu, orderProcessingChannel, clock,
          tblOrders, orderSeq, tblEvents, eng, can, rdr, failures,
          ordersIndex    \* the id index of the book version that keeps one

vars == <<askTreesMap, bidTreesMap, mu, orderProcessingChannel, clock,
          tblOrders, orderSeq, tblEvents, eng, can, rdr, failures, ordersIndex>>

\* ---------------------------------------------------------------- data
\* order.Order
Order(id, pair, type, price, amount, account, createdAt) ==
    [ID |-> id, PairID |-> pair, Type |-> type, Price |-> price,
     Amount |-> amount, AccountID |-> account, CreatedAt |-> createdAt]

NoOrder == Order(0, "", ASK, 0, 0, 0, 0)

\* sql.NullInt64 / sql.NullInt32 / pqtype.NullRawMessage built with only the
\* value field set: Valid keeps its zero value, false.
NullOf(v) == [Valid |-> FALSE, V |-> v]

\* What the driver writes for a nullable parameter: NULL unless Valid.
DbValue(n) == IF n.Valid THEN [null |-> FALSE, val |-> n.V] ELSE [null |-> TRUE, val |-> 0]

\* book.MatchResult
MatchResult(target, status) == [targetOrder |-> target, match_status |-> status]

\* ---------------------------------------------------------------- slices
\* slices.Delete(s, i, i+1), 1-based
DeleteAt(s, i) == [k \in 1..(Len(s) - 1) |-> IF k < i THEN s[k] ELSE s[k + 1]]

\* Stable insertion of x into a list sorted by CreatedAt (one pass of the
\* insertion sort slices.SortFunc runs on short slices).
RECURSIVE InsertSorted(_, _)
InsertSorted(sorted, x) ==
    IF sorted = <<>> THEN <<x>>
    ELSE IF x.CreatedAt < sorted[Len(sorted)].CreatedAt
         THEN Append(InsertSorted(SubSeq(sorted, 1, Len(sorted) - 1), x), sorted[Len(sorted)])
         ELSE Append(sorted, x)

\* slices.SortFunc(list, by CreatedAt): stable for the lengths reached here.
RECURSIVE SortByCreatedAt(_)
SortByCreatedAt(list) ==
    IF list = <<>> THEN <<>>
    ELSE InsertSorted(SortByCreatedAt(SubSeq(list, 1, Len(list) - 1)), list[Len(list)])

\* ---------------------------------------------------------------- trees
\* A tree map is a function from the pairs that have a tree to the tree; a
\* tree is a function from its keys (prices) to the level's order list.
EmptyTree == [p \in {} |-> <<>>]
EmptyTreesMap == [p \in {} |-> EmptyTree]

\* getTreeFor: nil (absent) for a pair without tree or a type that is neither.
HasTreeFor(ask, bid, pairId, orderType) ==
    \/ orderType = ASK /\ pairId \in DOMAIN ask
    \/ orderType = BID /\ pairId \in DOMAIN bid

getTreeFor(ask, bid, pairId, orderType) ==
    IF orderType = ASK THEN ask[pairId] ELSE bid[pairId]

\* Trees kept per side only: the tree is put for every pair.
SetTreeShared(ask, bid, pairId, orderType, tree) ==
    IF orderType = ASK
    THEN [ask |-> [p \in DOMAIN ask \cup Pairs \cup {pairId} |-> tree], bid |-> bid]
    ELSE [ask |-> ask, bid |-> [p \in DOMAIN bid \cup Pairs \cup {pairId} |-> tree]]

\* Put a tree for (pairId, orderType) in the maps: ASK goes to the ask map,
\* every other type to the bid map (genTreeFor's else branch).
SetTree(ask, bid, pairId, orderType, tree) ==
    IF orderType = ASK
    THEN [ask |-> [p \in DOMAIN ask \cup {pairId} |-> IF p = pairId THEN tree ELSE ask[p]],
          bid |-> bid]
    ELSE [ask |-> ask,
          bid |-> [p \in DOMAIN bid \cup {pairId} |-> IF p = pairId THEN tree ELSE bid[p]]]

genTreeFor(ask, bid, pairId, orderType) == SetTree(ask, bid, pairId, orderType, EmptyTree)

\* tree.Put(key, list)
TreePut(tree, key, list) ==
    [k \in DOMAIN tree \cup {key} |-> IF k = key THEN list ELSE tree[k]]

\* tree.Remove(key)
TreeRemove(tree, key) == [k \in DOMAIN tree \ {key} |-> tree[k]]

\* ---------------------------------------------------------------- matchOrder
\* The scan without the own-account test.
RECURSIVE MatchLoopNoSkip(_, _, _, _, _)
MatchLoopNoSkip(ordersList, idx, amountLeft, matchResults, o) ==
    IF ~(idx <= Len(ordersList) /\ amountLeft > 0)
    THEN [list |-> ordersList, results |-> matchResults, left |-> amountLeft]
    ELSE IF ordersList[idx].Amount > amountLeft
    THEN [list |-> [ordersList EXCEPT ![idx].Amount = @ - amountLeft],
          results |-> Append(matchResults,
                             MatchResult([ordersList[idx] EXCEPT !.Amount = amountLeft], "partial")),
          left |-> 0]
    ELSE MatchLoopNoSkip(DeleteAt(ordersList, idx), idx, amountLeft - ordersList[idx].Amount,
                         Append(matchResults, MatchResult(ordersList[idx], "full")), o)

\* The scan that stops at the first own-account order.
RECURSIVE MatchLoopBlocking(_, _, _, _, _)
MatchLoopBlocking(ordersList, idx, amountLeft, matchResults, o) ==
    IF ~(idx <= Len(ordersList) /\ amountLeft > 0)
    THEN [list |-> ordersList, results |-> matchResults, left |-> amountLeft]
    ELSE IF ordersList[idx].AccountID = o.AccountID
    THEN [list |-> ordersList, results |-> matchResults, left |-> amountLeft]
    ELSE IF ordersList[idx].Amount > amountLeft
    THEN [list |-> [ordersList EXCEPT ![idx].Amount = @ - amountLeft],
          results |-> Append(matchResults,
                             MatchResult([ordersList[idx] EXCEPT !.Amount = amountLeft], "partial")),
          left |-> 0]
    ELSE MatchLoopBlocking(DeleteAt(ordersList, idx), idx, amountLeft - ordersList[idx].Amount,
                           Append(matchResults, MatchResult(ordersList[idx], "full")), o)

\* The scan that records a partial fill without decrementing the resting order.
RECURSIVE MatchLoopNoDecrement(_, _, _, _, _)
MatchLoopNoDecrement(ordersList, idx, amountLeft, matchResults, o) ==
    IF ~(idx <= Len(ordersList) /\ amountLeft > 0)
    THEN [list |-> ordersList, results |-> matchResults, left |-> amountLeft]
    ELSE IF ordersList[idx].AccountID = o.AccountID
    THEN MatchLoopNoDecrement(ordersList, idx + 1, amountLeft, matchResults, o)
    ELSE IF ordersList[idx].Amount > amountLeft
    THEN [list |-> ordersList,
          results |-> Append(matchResults,
                             MatchResult([ordersList[idx] EXCEPT !.Amount = amountLeft], "partial")),
          left |-> 0]
    ELSE MatchLoopNoDecrement(DeleteAt(ordersList, idx), idx, amountLeft - ordersList[idx].Amount,
                              Append(matchResults, MatchResult(ordersList[idx], "full")), o)

\* The scan of one level: own-account orders are stepped over, a larger
\* resting order is decremented and ends the scan, a smaller or equal one is
\* recorded whole and deleted.
RECURSIVE MatchLoop(_, _, _, _, _)
MatchLoop(ordersList, idx, amountLeft, matchResults, o) ==
    IF ~(idx <= Len(ordersList) /\ amountLeft > 0)
    THEN [list |-> ordersList, results |-> matchResults, left |-> amountLeft]
    ELSE IF ordersList[idx].AccountID = o.AccountID
    THEN MatchLoop(ordersList, idx + 1, amountLeft, matchResults, o)
    ELSE IF ordersList[idx].Amount > amountLeft
    THEN [list |-> [ordersList EXCEPT ![idx].Amount = @ - amountLeft],
          results |-> Append(matchResults,
                             MatchResult([ordersList[idx] EXCEPT !.Amount = amountLeft], "partial")),
          left |-> 0]
    ELSE MatchLoop(DeleteAt(ordersList, idx), idx, amountLeft - ordersList[idx].Amount,
                   Append(matchResults, MatchResult(ordersList[idx], "full")), o)

OppositeType(t) == IF t = ASK THEN BID ELSE ASK

\* matchOrder taking the first level of the opposite tree, whatever its price.
matchOrderFirstLevel(ask, bid, o) ==
    LET treeType == OppositeType(o.Type)
        m0 == IF HasTreeFor(ask, bid, o.PairID, treeType)
              THEN [ask |-> ask, bid |-> bid]
              ELSE genTreeFor(ask, bid, o.PairID, treeType)
        tree == getTreeFor(m0.ask, m0.bid, o.PairID, treeType)
    IN  IF DOMAIN tree = {}
        THEN [ask |-> m0.ask, bid |-> m0.bid, results |-> <<>>, left |-> 0]
        ELSE LET key == CHOOSE k \in DOMAIN tree : \A j \in DOMAIN tree : k <= j
                 r == MatchLoop(tree[key], 1, o.Amount, <<>>, o)
                 m1 == SetTree(m0.ask, m0.bid, o.PairID, treeType,
                               TreePut(tree, key, r.list))
             IN  [ask |-> m1.ask, bid |-> m1.bid, results |-> r.results, left |-> r.left]

\* matchOrder(o) on the maps: the maps after the call, the match results and
\* amountLeft. Only the level keyed by o.Price in the opposite tree is looked at.
matchOrder(ask, bid, o) ==
    LET treeType == OppositeType(o.Type)
        m0 == IF HasTreeFor(ask, bid, o.PairID, treeType)
              THEN [ask |-> ask, bid |-> bid]
              ELSE genTreeFor(ask, bid, o.PairID, treeType)
        tree == getTreeFor(m0.ask, m0.bid, o.PairID, treeType)
    IN  IF o.Price \notin DOMAIN tree
        THEN [ask |-> m0.ask, bid |-> m0.bid, results |-> <<>>, left |-> 0]
        ELSE LET r == MatchLoop(tree[o.Price], 1, o.Amount, <<>>, o)
                 m1 == SetTree(m0.ask, m0.bid, o.PairID, treeType,
                               TreePut(tree, o.Price, r.list))
             IN  [ask |-> m1.ask, bid |-> m1.bid, results |-> r.results, left |-> r.left]

\* ---------------------------------------------------------------- insertOrder
\* insertOrder that appends to the level and leaves it unsorted.
insertOrderNoSort(ask, bid, o) ==
    LET m0 == IF HasTreeFor(ask, bid, o.PairID, o.Type)
              THEN [ask |-> ask, bid |-> bid]
              ELSE genTreeFor(ask, bid, o.PairID, o.Type)
        tree == IF o.Type \in Types THEN getTreeFor(m0.ask, m0.bid, o.PairID, o.Type)
                ELSE EmptyTree
        list == IF o.Price \in DOMAIN tree THEN Append(tree[o.Price], o) ELSE <<o>>
    IN  SetTree(m0.ask, m0.bid, o.PairID, o.Type, TreePut(tree, o.Price, list))

\* The locked part of insertOrder(o): o is rested at the level keyed by o.Price
\* of its own tree, the level sorted by CreatedAt.
insertOrder(ask, bid, o) ==
    LET m0 == IF HasTreeFor(ask, bid, o.PairID, o.Type)
              THEN [ask |-> ask, bid |-> bid]
              ELSE genTreeFor(ask, bid, o.PairID, o.Type)
        tree == IF o.Type \in Types THEN getTreeFor(m0.ask, m0.bid, o.PairID, o.Type)
                ELSE EmptyTree
        list == IF o.Price \in DOMAIN tree
                THEN SortByCreatedAt(Append(tree[o.Price], o))
                ELSE <<o>>
    IN  SetTree(m0.ask, m0.bid, o.PairID, o.Type, TreePut(tree, o.Price, list))

\* ---------------------------------------------------------------- store
\* tbl_orders row written by CreateOrder: account_id is passed as a
\* sql.NullInt32 whose Valid is false.
OrderRow(id, o) ==
    [id |-> id, pair_id |-> o.PairID, price |-> o.Price, amount |-> o.Amount,
     order_type |-> o.Type, account_id |-> DbValue(NullOf(o.AccountID))]

\* tbl_order_history_events row
EventRow(event, orderId, metadata) ==
    [event |-> event, order_id |-> DbValue(orderId), metadata |-> DbValue(metadata)]

\* convertOrder: the order.Order read back from a tbl_orders row.
convertOrder(row) ==
    Order(row.id, row.pair_id, row.order_type, row.price, row.amount,
          row.account_id.val, 0)

\* orderRepo.AddEvent(ev): the row it inserts. ev.OrderId is not among the
\* insert parameters, and the metadata is a NullRawMessage with Valid false.
AddEventRow(name, orderId, metadata) ==
    EventRow(name, NullOf(0), NullOf(metadata))

\* The companion event CreateOrder inserts in its transaction.
CreatedEventRow(id) == EventRow("ORDER_CREATED", NullOf(id), NullOf(0))

\* ---------------------------------------------------------------- Init
IdleEngine == [pc |-> "recv", o |-> NoOrder, matchResults |-> <<>>, amountLeft |-> 0,
               ins |-> NoOrder, created |-> FALSE, evIdx |-> 0]
IdleCancel == [pc |-> "idle", id |-> 0, foundOrder |-> NoOrder, orders |-> <<>>,
               idx |-> 0, ret |-> "none", calls |-> 0]

Init ==
    /\ askTreesMap = EmptyTreesMap
    /\ bidTreesMap = EmptyTreesMap
    /\ mu = [writer |-> "none", readers |-> 0]
    /\ orderProcessingChannel = {}
    /\ clock = 1
    /\ tblOrders = <<>>
    /\ orderSeq = 0
    /\ tblEvents = <<>>
    /\ eng = IdleEngine
    /\ can = IdleCancel
    /\ rdr = "idle"
    /\ failures = 0
    /\ ordersIndex = [id \in {} |-> NoOrder]

\* ---------------------------------------------------------------- producers
\* Requests made so far: clock counts the submissions, can.calls the cancellations.
Requests == (clock - 1) + can.calls

\* POST /add-order: the body is parsed into an order, CreatedAt is stamped
\* and AddOrder blocks on the unbuffered channel until the match loop receives.
AddOrder ==
    /\ Requests < MaxRequests
    /\ Cardinality(orderProcessingChannel) < MaxPending
    /\ \E pair \in Pairs, type \in Types, price \in Prices,
          amount \in Amounts, account \in Accounts :
         orderProcessingChannel' = orderProcessingChannel \cup
             {Order(0, pair, type, price, amount, account, clock)}
    /\ clock' = clock + 1
    /\ UNCHANGED <<askTreesMap, bidTreesMap, mu, tblOrders, orderSeq, tblEvents,
                   eng, can, rdr, failures,
                   ordersIndex>>

\* ---------------------------------------------------------------- match loop
\* for o := range b.orderProcessingChannel
Receive ==
    /\ eng.pc = "recv"
    /\ \E o \in orderProcessingChannel :
         /\ orderProcessingChannel' = orderProcessingChannel \ {o}
         /\ eng' = [IdleEngine EXCEPT !.pc = "matchLock", !.o = o]
    /\ UNCHANGED <<askTreesMap, bidTreesMap, mu, clock, tblOrders, orderSeq,
                   tblEvents, can, rdr, failures,
                   ordersIndex>>

\* b.mu.Lock() of matchOrder and of insertOrder
EngineLock ==
    /\ eng.pc \in {"matchLock", "insertLock"}
    /\ mu.writer = "none" /\ mu.readers = 0
    /\ mu' = [mu EXCEPT !.writer = "engine"]
    /\ eng' = [eng EXCEPT !.pc = IF eng.pc = "matchLock" THEN "match" ELSE "insert"]
    /\ UNCHANGED <<askTreesMap, bidTreesMap, orderProcessingChannel, clock,
                   tblOrders, orderSeq, tblEvents, can, rdr, failures,
                   ordersIndex>>

\* Where the loop goes once insertOrder has returned: the TARGET_HIT events
\* of the recorded results, then the next receive.
AfterInsert(e) ==
    IF Len(e.matchResults) > 0 THEN [e EXCEPT !.pc = "events", !.evIdx = 1]
    ELSE [e EXCEPT !.pc = "recv"]

\* A matchOrder that returns without Unlock.
MatchStepKeepLock ==
    /\ eng.pc = "match"
    /\ LET r == matchOrder(askTreesMap, bidTreesMap, eng.o)
       IN  /\ askTreesMap' = r.ask
           /\ bidTreesMap' = r.bid
           /\ eng' = [eng EXCEPT !.pc = "create", !.matchResults = r.results,
                                 !.amountLeft = r.left]
    /\ UNCHANGED <<mu, orderProcessingChannel, clock, tblOrders, orderSeq, tblEvents,
                   can, rdr, failures,
                   ordersIndex>>

\* body of matchOrder and its deferred Unlock
MatchStep ==
    /\ eng.pc = "match"
    /\ LET r == matchOrder(askTreesMap, bidTreesMap, eng.o)
       IN  /\ askTreesMap' = r.ask
           /\ bidTreesMap' = r.bid
           /\ eng' = [eng EXCEPT !.pc = "create", !.matchResults = r.results,
                                 !.amountLeft = r.left]
    /\ mu' = [mu EXCEPT !.writer = "none"]
    /\ UNCHANGED <<orderProcessingChannel, clock, tblOrders, orderSeq, tblEvents,
                   can, rdr, failures,
                   ordersIndex>>

\* insertOrder: orderRepo.CreateOrder commits the row and its ORDER_CREATED
\* event; o.ID = createdOrder.ID in insertOrder's own copy of o.
CreateOrderOk ==
    /\ eng.pc = "create"
    /\ orderSeq' = orderSeq + 1
    /\ tblOrders' = Append(tblOrders, OrderRow(orderSeq + 1, eng.o))
    /\ tblEvents' = Append(tblEvents, CreatedEventRow(orderSeq + 1))
    /\ eng' = [eng EXCEPT !.pc = "insertLock", !.created = TRUE,
                          !.ins = [eng.o EXCEPT !.ID = orderSeq + 1]]
    /\ UNCHANGED <<askTreesMap, bidTreesMap, mu, orderProcessingChannel, clock,
                   can, rdr, failures,
                   ordersIndex>>

\* insertOrder: CreateOrder returns an error. Whichever statement failed
\* (Begin, the row insert, whose failure leaves the transaction aborted so
\* that the event insert fails after it, the event insert or Commit), the
\* deferred Rollback undoes the transaction. The error is logged and
\* insertOrder returns. Ids are only ever compared for equality, so the
\* sequence value a rolled-back row insert drew is not kept.
CreateOrderFail ==
    /\ eng.pc = "create"
    /\ failures < MaxStoreFailures
    /\ failures' = failures + 1
    /\ eng' = AfterInsert(eng)
    /\ UNCHANGED <<askTreesMap, bidTreesMap, mu, orderProcessingChannel, clock,
                   tblOrders, orderSeq, tblEvents, can, rdr,
                   ordersIndex>>

\* locked part of insertOrder and its deferred Unlock
InsertStep ==
    /\ eng.pc = "insert"
    /\ LET m == insertOrder(askTreesMap, bidTreesMap, eng.ins)
       IN  /\ askTreesMap' = m.ask
           /\ bidTreesMap' = m.bid
    /\ mu' = [mu EXCEPT !.writer = "none"]
    /\ eng' = AfterInsert(eng)
    /\ UNCHANGED <<orderProcessingChannel, clock, tblOrders, orderSeq, tblEvents,
                   can, rdr, failures,
                   ordersIndex>>

\* The event the loop hands to AddEvent for result k: its matching_order_id
\* is the ID of the loop's o, which insertOrder's copy never updates.
TargetHitEvent(e, k) ==
    [Name |-> "TARGET_HIT", OrderId |-> e.matchResults[k].targetOrder.ID,
     matching_order_id |-> e.o.ID]

AfterEvent(e) ==
    IF e.evIdx < Len(e.matchResults) THEN [e EXCEPT !.evIdx = @ + 1]
    ELSE [e EXCEPT !.pc = "recv"]

\* b.orderRepo.AddEvent(TARGET_HIT ...) for the next match result
TargetHitOk ==
    /\ eng.pc = "events"
    /\ LET ev == TargetHitEvent(eng, eng.evIdx)
       IN  tblEvents' = Append(tblEvents,
                               AddEventRow(ev.Name, ev.OrderId, ev.matching_order_id))
    /\ eng' = AfterEvent(eng)
    /\ UNCHANGED <<askTreesMap, bidTreesMap, mu, orderProcessingChannel, clock,
                   tblOrders, orderSeq, can, rdr, failures,
                   ordersIndex>>

\* AddEvent fails; the loop ignores the returned error
TargetHitFail ==
    /\ eng.pc = "events"
    /\ failures < MaxStoreFailures
    /\ failures' = failures + 1
    /\ eng' = AfterEvent(eng)
    /\ UNCHANGED <<askTreesMap, bidTreesMap, mu, orderProcessingChannel, clock,
                   tblOrders, orderSeq, tblEvents, can, rdr,
                   ordersIndex>>

\* ---------------------------------------------------------------- CancellOrder
\* orderRepo.GetOrderByID: the query's error is overwritten by convertOrder's,
\* and convertOrder fails on the empty row of an unknown id.
KnownId(id) == \E k \in 1..Len(tblOrders) : tblOrders[k].id = id

RowOf(id) == tblOrders[CHOOSE k \in 1..Len(tblOrders) : tblOrders[k].id = id]

\* Index of the order with this ID in a level, 0 when there is none
\* (the range loop of CancellOrder).
IndexOfID(orders, id) ==
    IF \E k \in 1..Len(orders) : orders[k].ID = id
    THEN CHOOSE k \in 1..Len(orders) :
            orders[k].ID = id /\ \A j \in 1..(k - 1) : orders[j].ID # id
    ELSE 0

CancelReturn(c, ret) ==
    [IdleCancel EXCEPT !.id = c.id, !.ret = ret, !.calls = c.calls]

\* DELETE /order-book/:id -> CancellOrder(id), up to the return of GetOrderByID
CancelLookup ==
    /\ can.pc = "idle"
    /\ Requests < MaxRequests
    /\ \E id \in 1..(orderSeq + 1) :
         can' = IF KnownId(id)
                THEN [can EXCEPT !.pc = "locate", !.id = id, !.ret = "none",
                                 !.calls = @ + 1,
                                 !.foundOrder = convertOrder(RowOf(id))]
                ELSE CancelReturn([can EXCEPT !.id = id, !.calls = @ + 1], "error")
    /\ UNCHANGED <<askTreesMap, bidTreesMap, mu, orderProcessingChannel, clock,
                   tblOrders, orderSeq, tblEvents, eng, rdr, failures,
                   ordersIndex>>

\* getTreeFor, tree.GetNode and the scan of the level for the ID; b.mu is not taken
CancelLocate ==
    /\ can.pc = "locate"
    /\ LET f == can.foundOrder
       IN  IF ~HasTreeFor(askTreesMap, bidTreesMap, f.PairID, f.Type)
           THEN can' = CancelReturn(can, "notfound")
           ELSE LET tree == getTreeFor(askTreesMap, bidTreesMap, f.PairID, f.Type)
                IN  IF f.Price \notin DOMAIN tree
                    THEN can' = CancelReturn(can, "notfound")
                    ELSE LET k == IndexOfID(tree[f.Price], f.ID)
                         IN  IF k = 0
                             THEN can' = CancelReturn(can, "notfound")
                             ELSE can' = [can EXCEPT !.pc = "delete", !.idx = k,
                                                     !.orders = tree[f.Price]]
    /\ UNCHANGED <<askTreesMap, bidTreesMap, mu, orderProcessingChannel, clock,
                   tblOrders, orderSeq, tblEvents, eng, rdr, failures,
                   ordersIndex>>

\* orders := slices.Delete(orders, idx, idx+1); node.Value.List = orders
CancelDelete ==
    /\ can.pc = "delete"
    /\ LET f == can.foundOrder
           orders == DeleteAt(can.orders, can.idx)
           tree == getTreeFor(askTreesMap, bidTreesMap, f.PairID, f.Type)
           m == SetTree(askTreesMap, bidTreesMap, f.PairID, f.Type,
                        TreePut(tree, f.Price, orders))
       IN  /\ askTreesMap' = m.ask
           /\ bidTreesMap' = m.bid
           /\ can' = [can EXCEPT !.pc = "event", !.orders = orders]
    /\ UNCHANGED <<mu, orderProcessingChannel, clock, tblOrders, orderSeq,
                   tblEvents, eng, rdr, failures,
                   ordersIndex>>

AfterCancelEvent(c) ==
    IF Len(c.orders) = 0 THEN [c EXCEPT !.pc = "remove"] ELSE CancelReturn(c, "ok")

\* b.orderRepo.AddEvent(ORDER_CANCELLED, OrderId: foundOrder.ID)
CancelEventOk ==
    /\ can.pc = "event"
    /\ tblEvents' = Append(tblEvents, AddEventRow("ORDER_CANCELLED", can.foundOrder.ID, 0))
    /\ can' = AfterCancelEvent(can)
    /\ UNCHANGED <<askTreesMap, bidTreesMap, mu, orderProcessingChannel, clock,
                   tblOrders, orderSeq, eng, rdr, failures,
                   ordersIndex>>

\* AddEvent fails; err is assigned and never read
CancelEventFail ==
    /\ can.pc = "event"
    /\ failures < MaxStoreFailures
    /\ failures' = failures + 1
    /\ can' = AfterCancelEvent(can)
    /\ UNCHANGED <<askTreesMap, bidTreesMap, mu, orderProcessingChannel, clock,
                   tblOrders, orderSeq, tblEvents, eng, rdr,
                   ordersIndex>>

\* if len(orders) == 0 { tree.Remove(node.Key) }; return nil
CancelRemove ==
    /\ can.pc = "remove"
    /\ LET f == can.foundOrder
           tree == getTreeFor(askTreesMap, bidTreesMap, f.PairID, f.Type)
           m == SetTree(askTreesMap, bidTreesMap, f.PairID, f.Type,
                        TreeRemove(tree, f.Price))
       IN  /\ askTreesMap' = m.ask
           /\ bidTreesMap' = m.bid
    /\ can' = CancelReturn(can, "ok")
    /\ UNCHANGED <<mu, orderProcessingChannel, clock, tblOrders, orderSeq,
                   tblEvents, eng, rdr, failures,
                   ordersIndex>>

\* DELETE /order-book/:id: the message the handler replies with for what
\* CancellOrder returned; only err == ErrOrderNotFound is told apart.
DeleteResponse(ret) ==
    IF ret = "notfound" THEN "The order not found" ELSE "Order cancelled successfully"

\* ---------------------------------------------------------------- GetOrders
\* The keys of a tree in ascending order.
RECURSIVE SortedKeys(_)
SortedKeys(keys) ==
    IF keys = {} THEN <<>>
    ELSE LET m == CHOOSE k \in keys : \A j \in keys : k <= j
         IN  <<m>> \o SortedKeys(keys \ {m})

\* The tree iterator: position 0 is Begin (before the first key), n + 1 is
\* End (past the last key), 1..n is the key of that rank in ascending order.
\* Next and Prev move one key and answer whether they landed on one.
IterNext(n, pos) ==
    IF pos < n THEN [pos |-> pos + 1, ok |-> TRUE] ELSE [pos |-> n + 1, ok |-> FALSE]

IterPrev(n, pos) ==
    IF pos > 1 THEN [pos |-> pos - 1, ok |-> TRUE] ELSE [pos |-> 0, ok |-> FALSE]

IterStep(dir, n, pos) == IF dir = "prev" THEN IterPrev(n, pos) ELSE IterNext(n, pos)

\* An offset loop that moves the iterator before it tests i < offset.
RECURSIVE SkipLoopEager(_, _, _, _, _)
SkipLoopEager(dir, n, pos, i, offset) ==
    LET r == IterStep(dir, n, pos)
    IN  IF r.ok /\ i < offset THEN SkipLoopEager(dir, n, r.pos, i + 1, offset)
        ELSE r.pos

\* for i := 0; i < offset && it.Prev() != false; i++ {}  (Next for bids):
\* the position the iterator is left at.
RECURSIVE SkipLoop(_, _, _, _, _)
SkipLoop(dir, n, pos, i, offset) ==
    IF i < offset
    THEN LET r == IterStep(dir, n, pos)
         IN  IF r.ok THEN SkipLoop(dir, n, r.pos, i + 1, offset) ELSE r.pos
    ELSE pos

\* for i := 0; i < size && it.Prev() != false; i++ { append(orderList...) }
RECURSIVE CollectLoop(_, _, _, _, _, _, _)
CollectLoop(dir, tree, keys, pos, i, size, acc) ==
    IF i < size
    THEN LET r == IterStep(dir, Len(keys), pos)
         IN  IF r.ok
             THEN CollectLoop(dir, tree, keys, r.pos, i + 1, size,
                              acc \o tree[keys[r.pos]])
             ELSE acc
    ELSE acc

\* One side of GetOrders: the iterator is created at Begin, the ask side
\* moves it to End first.
WalkSide(dir, tree, size, offset) ==
    LET keys == SortedKeys(DOMAIN tree)
        start == IF dir = "prev" THEN Len(keys) + 1 ELSE 0
    IN  CollectLoop(dir, tree, keys, SkipLoop(dir, Len(keys), start, 0, offset),
                    0, size, <<>>)

\* A GetOrders that walks the asks with Next and the bids with Prev.
GetOrdersBestFirst(ask, bid, pairId, size, offset) ==
    [ask |-> IF pairId \in DOMAIN ask THEN WalkSide("next", ask[pairId], size, offset)
             ELSE <<>>,
     bid |-> IF pairId \in DOMAIN bid THEN WalkSide("prev", bid[pairId], size, offset)
             ELSE <<>>]

\* GetOrders(pairId, size, offset): the ask tree is walked with Prev from
\* End, the bid tree with Next from Begin.
GetOrders(ask, bid, pairId, size, offset) ==
    [ask |-> IF pairId \in DOMAIN ask THEN WalkSide("prev", ask[pairId], size, offset)
             ELSE <<>>,
     bid |-> IF pairId \in DOMAIN bid THEN WalkSide("next", bid[pairId], size, offset)
             ELSE <<>>]

\* b.mu.RLock() of GetOrders
ReaderLock ==
    /\ rdr = "idle"
    /\ mu.writer = "none"
    /\ mu' = [mu EXCEPT !.readers = @ + 1]
    /\ rdr' = "rlocked"
    /\ UNCHANGED <<askTreesMap, bidTreesMap, orderProcessingChannel, clock,
                   tblOrders, orderSeq, tblEvents, eng, can, failures,
                   ordersIndex>>

\* A GetOrders that returns without RUnlock.
ReaderReturnNoUnlock ==
    /\ rdr = "rlocked"
    /\ rdr' = "idle"
    /\ UNCHANGED <<askTreesMap, bidTreesMap, mu, orderProcessingChannel, clock,
                   tblOrders, orderSeq, tblEvents, eng, can, failures,
                   ordersIndex>>

\* the walk of GetOrders and its deferred RUnlock; the result goes to the caller
ReaderReturn ==
    /\ rdr = "rlocked"
    /\ mu' = [mu EXCEPT !.readers = @ - 1]
    /\ rdr' = "idle"
    /\ UNCHANGED <<askTreesMap, bidTreesMap, orderProcessingChannel, clock,
                   tblOrders, orderSeq, tblEvents, eng, can, failures,
                   ordersIndex>>

\* ---------------------------------------------------------------- Next
Next ==
    \/ AddOrder
    \/ Receive
    \/ EngineLock
    \/ MatchStep
    \/ CreateOrderOk
    \/ CreateOrderFail
    \/ InsertStep
    \/ TargetHitOk
    \/ TargetHitFail
    \/ CancelLookup
    \/ CancelLocate
    \/ CancelDelete
    \/ CancelEventOk
    \/ CancelEventFail
    \/ CancelRemove
    \/ ReaderLock
    \/ ReaderReturn

Spec == Init /\ [][Next]_vars

\* ---------------------------------------------------------------- raw bodies
\* POST /add-order hands whatever BodyParser decoded to AddOrder: the handler
\* checks neither price, amount nor type. The values a body can hold beyond
\* the well-formed ones are stood for by a zero price, a zero amount and an
\* order type past BID.
MaxRawRequests == 2
UnknownType == BID + 1
RawTypes == Types \cup {UnknownType}
RawPrices == 0..MaxPrice
RawAmounts == 0..MaxAmount

AddOrderRaw ==
    /\ Requests < MaxRawRequests
    /\ Cardinality(orderProcessingChannel) < MaxPending
    /\ \E pair \in Pairs, type \in RawTypes, price \in RawPrices,
          amount \in RawAmounts, account \in Accounts :
         orderProcessingChannel' = orderProcessingChannel \cup
             {Order(0, pair, type, price, amount, account, clock)}
    /\ clock' = clock + 1
    /\ UNCHANGED <<askTreesMap, bidTreesMap, mu, tblOrders, orderSeq, tblEvents,
                   eng, can, rdr, failures,
                   ordersIndex>>

NextRaw ==
    \/ AddOrderRaw
    \/ Receive
    \/ EngineLock
    \/ MatchStep
    \/ CreateOrderOk
    \/ CreateOrderFail
    \/ InsertStep
    \/ TargetHitOk
    \/ TargetHitFail
    \/ CancelLookup
    \/ CancelLocate
    \/ CancelDelete
    \/ CancelEventOk
    \/ CancelEventFail
    \/ CancelRemove
    \/ ReaderLock
    \/ ReaderReturn

SpecRaw == Init /\ [][NextRaw]_vars

\* ---------------------------------------------------------------- one pair
\* The book when every submission is for the same pair: GetOrders reads the
\* two trees of one pair, so its snapshots are examined on this book, with
\* the match loop, the cancellations and the failing store as above.
SnapPairs == {"X"}

AddOrderOnePair ==
    /\ Requests < MaxRequests
    /\ Cardinality(orderProcessingChannel) < MaxPending
    /\ \E pair \in SnapPairs, type \in Types, price \in Prices,
          amount \in Amounts, account \in Accounts :
         orderProcessingChannel' = orderProcessingChannel \cup
             {Order(0, pair, type, price, amount, account, clock)}
    /\ clock' = clock + 1
    /\ UNCHANGED <<askTreesMap, bidTreesMap, mu, tblOrders, orderSeq, tblEvents,
                   eng, can, rdr, failures, ordersIndex>>

NextSnap ==
    \/ AddOrderOnePair
    \/ Receive
    \/ EngineLock
    \/ MatchStep
    \/ CreateOrderOk
    \/ CreateOrderFail
    \/ InsertStep
    \/ TargetHitOk
    \/ TargetHitFail
    \/ CancelLookup
    \/ CancelLocate
    \/ CancelDelete
    \/ CancelEventOk
    \/ CancelEventFail
    \/ CancelRemove
    \/ ReaderLock
    \/ ReaderReturn

SpecSnap == Init /\ [][NextSnap]_vars

\* ---------------------------------------------------------------- ordersIndex
\* The version of the book that keeps ordersIndex and has no store: the
\* controller gives each submission a fresh uuid, RemoveOrder(id) looks the
\* order up in the index. Receive, the lock steps, the locked part of
\* insertOrder, the level scan, the list write and the level removal are the
\* same statements as in the version above and are shared with it.
OrderMetadata(o) ==
    [PairId |-> o.PairID, Price |-> o.Price, Type |-> o.Type, Amount |-> o.Amount,
     ID |-> o.ID]

\* POST /add-order: order.ID = uuid.NewString(), a value no other order has
IdxAddOrder ==
    /\ Requests < MaxRequests
    /\ Cardinality(orderProcessingChannel) < MaxPending
    /\ \E pair \in Pairs, type \in Types, price \in Prices,
          amount \in Amounts, account \in Accounts :
         orderProcessingChannel' = orderProcessingChannel \cup
             {Order(clock, pair, type, price, amount, account, clock)}
    /\ clock' = clock + 1
    /\ UNCHANGED <<askTreesMap, bidTreesMap, mu, tblOrders, orderSeq, tblEvents,
                   eng, can, rdr, failures, ordersIndex>>

\* The loop of this version's matchOrder: the head of the level is either
\* larger than amountLeft (partial, break) or deleted from the list (full).
RECURSIVE IdxMatchLoop(_, _, _)
IdxMatchLoop(ordersList, amountLeft, matchedOrders) ==
    IF Len(ordersList) = 0 \/ amountLeft <= 0
    THEN [list |-> ordersList, matched |-> matchedOrders, left |-> amountLeft]
    ELSE IF ordersList[1].Amount > amountLeft
         THEN [list |-> [ordersList EXCEPT ![1].Amount = @ - amountLeft],
               matched |-> Append(matchedOrders, [ordersList[1] EXCEPT !.Amount = amountLeft]),
               left |-> 0]
         ELSE IdxMatchLoop(DeleteAt(ordersList, 1), amountLeft - ordersList[1].Amount,
                           Append(matchedOrders, ordersList[1]))

\* This version's matchOrder(o); ordersIndex is not touched by it.
idxMatchOrder(ask, bid, o) ==
    LET treeType == OppositeType(o.Type)
        m0 == IF HasTreeFor(ask, bid, o.PairID, treeType)
              THEN [ask |-> ask, bid |-> bid]
              ELSE genTreeFor(ask, bid, o.PairID, treeType)
        tree == getTreeFor(m0.ask, m0.bid, o.PairID, treeType)
    IN  IF o.Price \notin DOMAIN tree
        THEN [ask |-> m0.ask, bid |-> m0.bid, matched |-> <<>>, left |-> 0]
        ELSE LET r == IdxMatchLoop(tree[o.Price], o.Amount, <<>>)
                 m1 == SetTree(m0.ask, m0.bid, o.PairID, treeType,
                               TreePut(tree, o.Price, r.list))
             IN  [ask |-> m1.ask, bid |-> m1.bid, matched |-> r.matched, left |-> r.left]

\* matchOrder under the lock, then the loop's choice: an order without match
\* rests whole, one with amountLeft > 0 rests with o.Amount = amountLeft, a
\* fully matched one does not rest.
IdxMatchStep ==
    /\ eng.pc = "match"
    /\ LET r == idxMatchOrder(askTreesMap, bidTreesMap, eng.o)
       IN  /\ askTreesMap' = r.ask
           /\ bidTreesMap' = r.bid
           /\ eng' = IF Len(r.matched) = 0
                     THEN [eng EXCEPT !.pc = "insertLock", !.ins = eng.o,
                                      !.matchResults = r.matched, !.amountLeft = r.left]
                     ELSE IF r.left > 0
                          THEN [eng EXCEPT !.pc = "insertLock",
                                           !.ins = [eng.o EXCEPT !.Amount = r.left],
                                           !.matchResults = r.matched,
                                           !.amountLeft = r.left]
                          ELSE [eng EXCEPT !.pc = "recv", !.matchResults = r.matched,
                                           !.amountLeft = r.left]
    /\ mu' = [mu EXCEPT !.writer = "none"]
    /\ UNCHANGED <<orderProcessingChannel, clock, tblOrders, orderSeq, tblEvents,
                   can, rdr, failures, ordersIndex>>

\* insertOrder: b.ordersIndex[o.ID] = OrderMetadata{...}, then the order is
\* rested, all under the lock.
IdxInsertStep ==
    /\ eng.pc = "insert"
    /\ ordersIndex' = [id \in DOMAIN ordersIndex \cup {eng.ins.ID} |->
                         IF id = eng.ins.ID THEN OrderMetadata(eng.ins)
                         ELSE ordersIndex[id]]
    /\ LET m == insertOrder(askTreesMap, bidTreesMap, eng.ins)
       IN  /\ askTreesMap' = m.ask
           /\ bidTreesMap' = m.bid
    /\ mu' = [mu EXCEPT !.writer = "none"]
    /\ eng' = [eng EXCEPT !.pc = "recv"]
    /\ UNCHANGED <<orderProcessingChannel, clock, tblOrders, orderSeq, tblEvents,
                   can, rdr, failures>>

\* RemoveOrder(id): orderMetadata, exists := b.ordersIndex[id]; b.mu is not taken
RemoveLookup ==
    /\ can.pc = "idle"
    /\ Requests < MaxRequests
    /\ \E id \in 1..clock :
         can' = IF id \in DOMAIN ordersIndex
                THEN LET md == ordersIndex[id]
                     IN  [can EXCEPT !.pc = "locate", !.id = id, !.ret = "none",
                                     !.calls = @ + 1,
                                     !.foundOrder = Order(md.ID, md.PairId, md.Type,
                                                          md.Price, md.Amount, 0, 0)]
                ELSE CancelReturn([can EXCEPT !.id = id, !.calls = @ + 1], "notfound")
    /\ UNCHANGED <<askTreesMap, bidTreesMap, mu, orderProcessingChannel, clock,
                   tblOrders, orderSeq, tblEvents, eng, rdr, failures, ordersIndex>>

\* delete(b.ordersIndex, id), after the list without the order was written
RemoveFromIndex ==
    /\ can.pc = "event"
    /\ ordersIndex' = [id \in DOMAIN ordersIndex \ {can.id} |-> ordersIndex[id]]
    /\ can' = AfterCancelEvent(can)
    /\ UNCHANGED <<askTreesMap, bidTreesMap, mu, orderProcessingChannel, clock,
                   tblOrders, orderSeq, tblEvents, eng, rdr, failures>>

NextIdx ==
    \/ IdxAddOrder
    \/ Receive
    \/ EngineLock
    \/ IdxMatchStep
    \/ IdxInsertStep
    \/ RemoveLookup
    \/ CancelLocate
    \/ CancelDelete
    \/ RemoveFromIndex
    \/ CancelRemove
    \/ ReaderLock
    \/ ReaderReturn

SpecIdx == Init /\ [][NextIdx]_vars

\* ---------------------------------------------------------------- properties
\* Sum of the fill amounts of a list of match results.
RECURSIVE SumFills(_)
SumFills(results) ==
    IF results = <<>> THEN 0
    ELSE results[1].targetOrder.Amount + SumFills(Tail(results))

RECURSIVE SumAmounts(_)
SumAmounts(list) ==
    IF list = <<>> THEN 0 ELSE list[1].Amount + SumAmounts(Tail(list))

\* The orders of a level that carry this ID.
WithID(list, id) == SelectSeq(list, LAMBDA x : x.ID = id)

RECURSIVE SumOverKeys(_, _, _)
SumOverKeys(tree, keys, id) ==
    IF keys = {} THEN 0
    ELSE LET k == CHOOSE x \in keys : TRUE
         IN  SumAmounts(WithID(tree[k], id)) + SumOverKeys(tree, keys \ {k}, id)

RECURSIVE SumOverPairs(_, _, _)
SumOverPairs(map, pairs, id) ==
    IF pairs = {} THEN 0
    ELSE LET p == CHOOSE x \in pairs : TRUE
         IN  SumOverKeys(map[p], DOMAIN map[p], id) + SumOverPairs(map, pairs \ {p}, id)

\* The amount with which the order of this ID rests in the ladders, 0 if it does not.
RestingAmount(ask, bid, id) ==
    SumOverPairs(ask, DOMAIN ask, id) + SumOverPairs(bid, DOMAIN bid, id)

\* The order of this ID rests in some ladder.
Rests(ask, bid, id) ==
    \E map \in {ask, bid} : \E p \in DOMAIN map : \E price \in DOMAIN map[p] :
        \E k \in 1..Len(map[p][price]) : map[p][price][k].ID = id

\* The tree matchOrder(o) works on, empty when the pair has none.
OppositeTree(ask, bid, o) ==
    IF HasTreeFor(ask, bid, o.PairID, OppositeType(o.Type))
    THEN getTreeFor(ask, bid, o.PairID, OppositeType(o.Type))
    ELSE EmptyTree

\* A resting price that an incoming order's limit accepts.
Crosses(o, price) == IF o.Type = ASK THEN price >= o.Price ELSE price <= o.Price

\* Steps of the match loop, by the loop's position before and after.
MatchDone == eng.pc = "match" /\ eng'.pc = "create"
InsertDone == eng.pc = "insert" /\ eng'.pc # "insert"
CreateFailed == eng.pc = "create" /\ failures' = failures + 1

\* C1: when insertOrder has rested the incoming order, the recorded fill
\* amounts plus the amount with which it rests equal its original amount.
C1_Conservation ==
    [][InsertDone =>
         SumFills(eng.matchResults)
           + RestingAmount(askTreesMap', bidTreesMap', eng.ins.ID) = eng.o.Amount]_vars

\* C2: after matchOrder either the incoming amount is used up by the fills or
\* no level that its limit crosses still holds an order of another account.
C2_PriceCrossing ==
    [][MatchDone =>
         \/ SumFills(eng'.matchResults) = eng.o.Amount
         \/ LET tree == OppositeTree(askTreesMap', bidTreesMap', eng.o)
            IN  ~ \E price \in DOMAIN tree :
                    /\ Crosses(eng.o, price)
                    /\ \E k \in 1..Len(tree[price]) :
                          tree[price][k].AccountID # eng.o.AccountID]_vars

\* C3: an incoming order whose whole amount was consumed by fills is in no
\* ladder when its processing step ends.
C3_FilledNotRested ==
    [][(InsertDone /\ SumFills(eng.matchResults) = eng.o.Amount) =>
         ~Rests(askTreesMap', bidTreesMap', eng.ins.ID)]_vars

\* C4: no recorded fill is against a resting order of the incoming order's account.
C4_SelfTradeAvoidance ==
    \A k \in 1..Len(eng.matchResults) :
        eng.matchResults[k].targetOrder.AccountID # eng.o.AccountID

\* matchOrder has recorded a fill and stepped over an own-account order that
\* is still in the matched level.
C4_Witness ==
    /\ eng.pc = "create"
    /\ Len(eng.matchResults) > 0
    /\ LET tree == OppositeTree(askTreesMap, bidTreesMap, eng.o)
       IN  /\ eng.o.Price \in DOMAIN tree
           /\ \E k \in 1..Len(tree[eng.o.Price]) :
                 tree[eng.o.Price][k].AccountID = eng.o.AccountID

\* Position of the fill against order x in a list of match results, 0 if none.
FillIndex(results, x) ==
    IF \E k \in 1..Len(results) : results[k].targetOrder.ID = x.ID
    THEN CHOOSE k \in 1..Len(results) : results[k].targetOrder.ID = x.ID
    ELSE 0

\* C5: of two orders resting in one level that the incoming order could both
\* match, the later-created one is filled in a matchOrder call only after the
\* earlier-created one was filled for its whole amount in that call.
C5_PriceTimePriority ==
    [][MatchDone =>
         \A map \in {askTreesMap, bidTreesMap} : \A p \in DOMAIN map :
           \A price \in DOMAIN map[p] : \A i, j \in 1..Len(map[p][price]) :
             LET a == map[p][price][i]
                 b == map[p][price][j]
                 ka == FillIndex(eng'.matchResults, a)
                 kb == FillIndex(eng'.matchResults, b)
             IN  (/\ a.Type = b.Type
                  /\ a.CreatedAt < b.CreatedAt
                  /\ a.AccountID # eng.o.AccountID
                  /\ b.AccountID # eng.o.AccountID
                  /\ kb > 0)
                 => /\ ka > 0
                    /\ ka < kb
                    /\ eng'.matchResults[ka].match_status = "full"
                    /\ eng'.matchResults[ka].targetOrder.Amount = a.Amount]_vars

\* Two orders of one level were filled in created_at order although the
\* earlier-created one reached the loop (and the store) after the other.
C5_Witness ==
    /\ eng.pc = "create"
    /\ Len(eng.matchResults) = 2
    /\ eng.matchResults[1].targetOrder.CreatedAt < eng.matchResults[2].targetOrder.CreatedAt
    /\ eng.matchResults[1].targetOrder.ID > eng.matchResults[2].targetOrder.ID

\* C6: every recorded fill is against a resting order whose price the
\* incoming limit accepts (a bid at or above an ask's limit, an ask at or
\* below a bid's limit).
C6_PriceImprovement ==
    \A k \in 1..Len(eng.matchResults) :
        Crosses(eng.o, eng.matchResults[k].targetOrder.Price)

\* A fill was recorded while a level priced worse than the incoming limit,
\* holding an order of another account, was left alone.
C6_Witness ==
    /\ eng.pc = "create"
    /\ Len(eng.matchResults) > 0
    /\ LET tree == OppositeTree(askTreesMap, bidTreesMap, eng.o)
       IN  \E price \in DOMAIN tree :
              /\ ~Crosses(eng.o, price)
              /\ \E k \in 1..Len(tree[price]) :
                    tree[price][k].AccountID # eng.o.AccountID

\* C7: while a cancellation is between its read and its writes of a ladder,
\* neither the match loop nor a snapshot is inside a critical section of the book.
C7_CancelExcludesOthers ==
    ~(/\ can.pc \in {"delete", "remove"}
      /\ (mu.writer = "engine" \/ mu.readers > 0))

\* C8: no snapshot reads the book while the fills of the incoming order are
\* applied and its residual is not yet rested.
C8_AtomicProcessingStep ==
    ~(/\ rdr = "rlocked"
      /\ eng.pc \in {"create", "insertLock"}
      /\ Len(eng.matchResults) > 0)

\* C9: when create_order fails, no resting counterparty was decremented or
\* removed for the submission (no fill was recorded against the ladders).
C9_FailedCreateNoEffect ==
    [][CreateFailed => eng.matchResults = <<>>]_vars

\* C10: the event a successful cancellation appends is an ORDER_CANCELLED
\* event carrying the cancelled order's id.
C10_CancelEvent ==
    [][(can.pc = "event" /\ can'.pc # "event" /\ Len(tblEvents') = Len(tblEvents) + 1) =>
         LET row == tblEvents'[Len(tblEvents')]
         IN  /\ row.event = "ORDER_CANCELLED"
             /\ row.order_id = [null |-> FALSE, val |-> can.foundOrder.ID]]_vars

\* C11: CancellOrder on the id of an order that has been fully filled does not
\* succeed: here the order the loop processed last, whose fills add up to its
\* whole amount, is never the order of a cancellation that returned nil.
C11_NoCancelAfterTerminal ==
    ~(/\ can.ret = "ok"
      /\ eng.created
      /\ can.id = eng.ins.ID
      /\ Len(eng.matchResults) > 0
      /\ SumFills(eng.matchResults) = eng.o.Amount)

\* C12: a cancellation of an id the store does not know has returned
\* ErrOrderNotFound and the handler has replied "The order not found", never
\* a success.
C12_UnknownIdNotFound ==
    (can.pc = "idle" /\ can.ret # "none" /\ ~KnownId(can.id)) =>
        (can.ret = "notfound" /\ DeleteResponse(can.ret) = "The order not found")

\* C13: the step that records fill k appends exactly one TARGET_HIT row whose
\* order_id is the resting counterparty's ID and whose matching_order_id is
\* the ID CreateOrder returned for the incoming order.
C13_TargetHitEvent ==
    [][(eng.pc = "events" /\ eng.created /\ eng' # eng) =>
         /\ Len(tblEvents') = Len(tblEvents) + 1
         /\ LET row == tblEvents'[Len(tblEvents')]
            IN  /\ row.event = "TARGET_HIT"
                /\ row.order_id =
                     [null |-> FALSE, val |-> eng.matchResults[eng.evIdx].targetOrder.ID]
                /\ row.metadata = [null |-> FALSE, val |-> eng.ins.ID]]_vars

\* C14: outside the critical sections (the lock is free and no cancellation
\* is under way) every price key of every ladder maps to a non-empty list.
C14_NoEmptyLevel ==
    (mu.writer = "none" /\ can.pc = "idle") =>
        /\ \A p \in DOMAIN askTreesMap : \A k \in DOMAIN askTreesMap[p] :
               Len(askTreesMap[p][k]) > 0
        /\ \A p \in DOMAIN bidTreesMap : \A k \in DOMAIN bidTreesMap[p] :
               Len(bidTreesMap[p][k]) > 0

\* ---------------------------------------------------------------- snapshots
MaxSize == 2
MaxOffset == 2

Reverse(s) == [k \in 1..Len(s) |-> s[Len(s) + 1 - k]]

\* The lists of the levels ranked from .. to of a walk, appended.
RECURSIVE CollectLevels(_, _, _, _)
CollectLevels(tree, walk, from, to) ==
    IF from > to \/ from > Len(walk) THEN <<>>
    ELSE tree[walk[from]] \o CollectLevels(tree, walk, from + 1, to)

\* The pairs that have a tree on either side.
BookPairs == DOMAIN askTreesMap \cup DOMAIN bidTreesMap

\* The snapshots a reader holding the read lock can be returned for them.
Snapshots ==
    {GetOrders(askTreesMap, bidTreesMap, pairId, size, offset) :
        pairId \in BookPairs, size \in 0..MaxSize, offset \in 0..MaxOffset}

Fifo(list) ==
    \A i, j \in 1..Len(list) :
        (i < j /\ list[i].Price = list[j].Price) => list[i].CreatedAt <= list[j].CreatedAt

Ascending(list) == \A i, j \in 1..Len(list) : i < j => list[i].Price <= list[j].Price
Descending(list) == \A i, j \in 1..Len(list) : i < j => list[i].Price >= list[j].Price

LevelPage(pairId, size, offset) ==
    [ask |-> IF pairId \in DOMAIN askTreesMap
             THEN CollectLevels(askTreesMap[pairId],
                                Reverse(SortedKeys(DOMAIN askTreesMap[pairId])),
                                offset + 1, offset + size)
             ELSE <<>>,
     bid |-> IF pairId \in DOMAIN bidTreesMap
             THEN CollectLevels(bidTreesMap[pairId],
                                SortedKeys(DOMAIN bidTreesMap[pairId]),
                                offset + 1, offset + size)
             ELSE <<>>]

C20_CreateOrderAtomic ==
    [][(eng.pc = "create" /\ eng'.pc # "create") =>
         \/ /\ eng'.created
            /\ Len(tblOrders') = Len(tblOrders) + 1
            /\ tblOrders'[Len(tblOrders')].id = eng'.ins.ID
            /\ Len(tblEvents') = Len(tblEvents) + 1
            /\ tblEvents'[Len(tblEvents')].event = "ORDER_CREATED"
            /\ tblEvents'[Len(tblEvents')].order_id =
                   [null |-> FALSE, val |-> eng'.ins.ID]
         \/ /\ ~eng'.created
            /\ tblOrders' = tblOrders
            /\ tblEvents' = tblEvents]_vars

\* ---------------------------------------------------------------- submissions
WellFormed(o) == o.Price > 0 /\ o.Amount > 0 /\ o.Type \in Types

\* The orders held in the ladders of a map.
LadderOrders(map) ==
    {map[p][k][i] : <<p, k, i>> \in
        {t \in (DOMAIN map) \X RawPrices \X (1..MaxRequests) :
            t[2] \in DOMAIN map[t[1]] /\ t[3] <= Len(map[t[1]][t[2]])}}

\* C16: every order held in any ladder has price > 0 and amount > 0, and the
\* order whose fills used up its whole amount is not held in a ladder.
C16_RestingOrderPositive ==
    /\ \A o \in LadderOrders(askTreesMap) \cup LadderOrders(bidTreesMap) :
          o.Price > 0 /\ o.Amount > 0
    /\ (eng.created /\ Len(eng.matchResults) > 0
           /\ SumFills(eng.matchResults) = eng.o.Amount) =>
          ~Rests(askTreesMap, bidTreesMap, eng.ins.ID)

\* C17: no malformed order is waiting on the channel, is being processed by
\* the match loop or rests in a ladder.
C17_MalformedRejected ==
    /\ \A o \in orderProcessingChannel : WellFormed(o)
    /\ eng.pc # "recv" => WellFormed(eng.o)
    /\ \A o \in LadderOrders(askTreesMap) \cup LadderOrders(bidTreesMap) : WellFormed(o)

\* ---------------------------------------------------------------- index
\* The order with this id rests at the place the index records for it.
RestsAtRecorded(id) ==
    LET md == ordersIndex[id]
    IN  /\ HasTreeFor(askTreesMap, bidTreesMap, md.PairId, md.Type)
        /\ LET tree == getTreeFor(askTreesMap, bidTreesMap, md.PairId, md.Type)
           IN  /\ md.Price \in DOMAIN tree
               /\ \E i \in 1..Len(tree[md.Price]) : tree[md.Price][i].ID = id

\* C15: while the lock is free and no removal is under way, an id is in
\* ordersIndex exactly when an order with that id rests in the ladder at the
\* pair, side and price recorded for it.
C15_IndexLadderConsistency ==
    (mu.writer = "none" /\ can.pc = "idle") =>
        /\ \A id \in DOMAIN ordersIndex : RestsAtRecorded(id)
        /\ \A o \in LadderOrders(askTreesMap) \cup LadderOrders(bidTreesMap) :
              o.ID \in DOMAIN ordersIndex

\* ---------------------------------------------------------------- levels
\* The levels of a pair on one side, none when the pair has no tree there.
Levels(map, p) == IF p \in DOMAIN map THEN map[p] ELSE EmptyTree

OwnTree(ask, bid, o) ==
    IF HasTreeFor(ask, bid, o.PairID, o.Type)
    THEN getTreeFor(ask, bid, o.PairID, o.Type)
    ELSE EmptyTree

\* No level of the opposite ladder has a price the incoming limit accepts.
NoCrossingLevel(ask, bid, o) ==
    \A price \in DOMAIN OppositeTree(ask, bid, o) : ~Crosses(o, price)

\* C22: when the opposite ladder of the incoming order's pair is empty or has
\* no crossing level, matchOrder records no fill and leaves the opposite
\* ladder as it was; an order without fill gets no TARGET_HIT event and, once
\* the store has accepted it, rests in its own ladder at its limit price with
\* its whole amount, after which the loop is back at the receive.
C22_NoMatchRest ==
    [][/\ (MatchDone /\ NoCrossingLevel(askTreesMap, bidTreesMap, eng.o)) =>
            /\ eng'.matchResults = <<>>
            /\ OppositeTree(askTreesMap', bidTreesMap', eng.o) =
                   OppositeTree(askTreesMap, bidTreesMap, eng.o)
       /\ (eng.pc # "recv" /\ eng.matchResults = <<>> /\ eng'.matchResults = <<>>
              /\ Len(tblEvents') > Len(tblEvents)) =>
            tblEvents'[Len(tblEvents')].event # "TARGET_HIT"
       /\ (InsertDone /\ eng.matchResults = <<>>) =>
            /\ eng'.pc = "recv"
            /\ LET tree == OwnTree(askTreesMap', bidTreesMap', eng.o)
               IN  /\ eng.o.Price \in DOMAIN tree
                   /\ \E k \in 1..Len(tree[eng.o.Price]) :
                         /\ tree[eng.o.Price][k].ID = eng.ins.ID
                         /\ tree[eng.o.Price][k].Amount = eng.o.Amount
            /\ RestingAmount(askTreesMap', bidTreesMap', eng.ins.ID) = eng.o.Amount]_vars

\* an order was processed against an opposite ladder that holds orders, none
\* at a crossing price, and rests
C22_Witness ==
    /\ eng.pc = "recv"
    /\ eng.created
    /\ eng.matchResults = <<>>
    /\ Rests(askTreesMap, bidTreesMap, eng.ins.ID)
    /\ NoCrossingLevel(askTreesMap, bidTreesMap, eng.o)
    /\ \E price \in DOMAIN OppositeTree(askTreesMap, bidTreesMap, eng.o) :
          Len(OppositeTree(askTreesMap, bidTreesMap, eng.o)[price]) > 0

\* ---------------------------------------------------------------- self-trade
\* The level matchOrder(o) scans, empty when there is none.
ScannedLevel(ask, bid, o) ==
    LET tree == OppositeTree(ask, bid, o)
    IN  IF o.Price \in DOMAIN tree THEN tree[o.Price] ELSE <<>>

OwnOrders(list, o) == SelectSeq(list, LAMBDA x : x.AccountID = o.AccountID)
OtherOrders(list, o) == SelectSeq(list, LAMBDA x : x.AccountID # o.AccountID)

\* C23: matchOrder leaves the own-account orders of the scanned level as they
\* were, amounts and order among themselves, and in front of the same
\* other-account orders as before; it stops only when the incoming amount is
\* used up or no eligible order is left in the level; and an incoming order
\* whose level holds only own-account orders records no fill and rests whole.
C23_SelfTradeSkip ==
    [][/\ MatchDone =>
            LET before == ScannedLevel(askTreesMap, bidTreesMap, eng.o)
                after == ScannedLevel(askTreesMap', bidTreesMap', eng.o)
            IN  /\ OwnOrders(after, eng.o) = OwnOrders(before, eng.o)
                /\ \A i, j \in 1..Len(after) :
                      (i < j /\ after[i].AccountID # after[j].AccountID) =>
                          \E a, b \in 1..Len(before) :
                              a < b /\ before[a].ID = after[i].ID
                                    /\ before[b].ID = after[j].ID
                /\ Len(before) > 0 =>
                      \/ SumFills(eng'.matchResults) = eng.o.Amount
                      \/ OtherOrders(after, eng.o) = <<>>
                /\ (Len(before) > 0 /\ OtherOrders(before, eng.o) = <<>>) =>
                      eng'.matchResults = <<>>
       /\ (InsertDone /\ eng.matchResults = <<>>) =>
            RestingAmount(askTreesMap', bidTreesMap', eng.ins.ID) = eng.o.Amount]_vars

\* matchOrder filled an order that stands behind an own-account order of the
\* level, which is still there
C23_Witness ==
    /\ eng.pc = "create"
    /\ LET level == ScannedLevel(askTreesMap, bidTreesMap, eng.o)
       IN  \E k \in 1..Len(eng.matchResults) : \E i \in 1..Len(level) :
               /\ level[i].AccountID = eng.o.AccountID
               /\ level[i].CreatedAt < eng.matchResults[k].targetOrder.CreatedAt

\* ---------------------------------------------------------------- resting side
RECURSIVE TreeTotal(_, _)
TreeTotal(tree, keys) ==
    IF keys = {} THEN 0
    ELSE LET k == CHOOSE x \in keys : TRUE
         IN  SumAmounts(tree[k]) + TreeTotal(tree, keys \ {k})

\* The amount of the incoming order still open before fill k of the results.
OpenBefore(o, results, k) == o.Amount - SumFills(SubSeq(results, 1, k - 1))

\* The position in a level of the order with this ID, 0 if it is not there.
PositionOf(list, id) ==
    IF \E i \in 1..Len(list) : list[i].ID = id
    THEN CHOOSE i \in 1..Len(list) : list[i].ID = id
    ELSE 0

\* C24: a matchOrder call lowers the total amount resting in the opposite
\* tree by exactly the sum of its recorded fills; a partial fill is of an order
\* larger than the open amount, has the open amount as size, leaves the order
\* in the level with the difference and behind the same orders as before, and
\* is the last fill; a full fill is of an order not larger than the open
\* amount, has the order's amount as size, and removes the order.
C24_RestingSideAccounting ==
    [][MatchDone =>
         LET opp == OppositeTree(askTreesMap, bidTreesMap, eng.o)
             oppAfter == OppositeTree(askTreesMap', bidTreesMap', eng.o)
             before == ScannedLevel(askTreesMap, bidTreesMap, eng.o)
             after == ScannedLevel(askTreesMap', bidTreesMap', eng.o)
             results == eng'.matchResults
         IN  /\ TreeTotal(opp, DOMAIN opp) - TreeTotal(oppAfter, DOMAIN oppAfter)
                    = SumFills(results)
             /\ \A k \in 1..Len(results) :
                   LET t == results[k].targetOrder
                       i == PositionOf(before, t.ID)
                       j == PositionOf(after, t.ID)
                       open == OpenBefore(eng.o, results, k)
                   IN  /\ i > 0
                       /\ results[k].match_status = "partial" =>
                             /\ before[i].Amount > open
                             /\ t.Amount = open
                             /\ k = Len(results)
                             /\ j > 0
                             /\ after[j] = [before[i] EXCEPT !.Amount = @ - open]
                             /\ \A m \in 1..Len(after) :
                                   m < j <=> (PositionOf(before, after[m].ID) \in 1..(i - 1))
                       /\ results[k].match_status = "full" =>
                             /\ before[i].Amount <= open
                             /\ t.Amount = before[i].Amount
                             /\ j = 0
                       /\ results[k].match_status \in {"partial", "full"}]_vars

\* a call that filled one order whole and the next in part, which still rests
C24_Witness ==
    /\ eng.pc = "create"
    /\ Len(eng.matchResults) >= 2
    /\ eng.matchResults[1].match_status = "full"
    /\ LET last == eng.matchResults[Len(eng.matchResults)]
       IN  /\ last.match_status = "partial"
           /\ Rests(askTreesMap, bidTreesMap, last.targetOrder.ID)

\* ---------------------------------------------------------------- event order
\* A step that appends a TARGET_HIT row.
TargetHitAppended ==
    /\ Len(tblEvents') = Len(tblEvents) + 1
    /\ tblEvents'[Len(tblEvents')].event = "TARGET_HIT"

\* C25: a TARGET_HIT row is appended only for an incoming order whose
\* ORDER_CREATED event is already committed, and the rows of one incoming
\* order are appended in the order of its recorded fills.
C25_EventOrdering ==
    [][TargetHitAppended =>
         /\ eng.created
         /\ \E k \in 1..Len(tblEvents) : tblEvents[k].event = "ORDER_CREATED"
         /\ eng.pc = "events" /\ eng.evIdx \in 1..Len(eng.matchResults)
         /\ \/ eng'.pc = "events" /\ eng'.evIdx = eng.evIdx + 1
            \/ eng'.pc = "recv" /\ eng.evIdx = Len(eng.matchResults)]_vars

\* ---------------------------------------------------------------- cancellation frame
\* The level of a pair and price in a ladder, empty when there is none.
LevelAt(map, pair, price) ==
    IF pair \in DOMAIN map /\ price \in DOMAIN map[pair] THEN map[pair][price] ELSE <<>>

Without(list, id) == SelectSeq(list, LAMBDA x : x.ID # id)

\* A step of CancellOrder that writes to a ladder.
CancelWrites == can.pc \in {"delete", "remove"} /\ can'.pc # can.pc

\* C26: a ladder write of CancellOrder(id) leaves every level of every pair
\* and side as it was but for the order of that id: the other orders keep
\* their price, amount and order within the level.
C26_CancellationFrame ==
    [][CancelWrites =>
         /\ \A pair \in Pairs, price \in Prices :
               /\ Without(LevelAt(askTreesMap', pair, price), can.id)
                    = Without(LevelAt(askTreesMap, pair, price), can.id)
               /\ Without(LevelAt(bidTreesMap', pair, price), can.id)
                    = Without(LevelAt(bidTreesMap, pair, price), can.id)]_vars

\* ---------------------------------------------------------------- pairs
\* The ladders of a pair, ask and bid.
LaddersOf(ask, bid, p) == <<Levels(ask, p), Levels(bid, p)>>

\* C27: a step changes the ladders of a pair only if it is a step of the
\* match loop on an order of that pair or a step of CancellOrder on an order
\* of that pair, and matchOrder fills only orders of the incoming order's pair.
C27_PairIndependence ==
    [][/\ \A p \in Pairs :
            LaddersOf(askTreesMap', bidTreesMap', p) # LaddersOf(askTreesMap, bidTreesMap, p) =>
                \/ eng' # eng /\ can' = can /\ eng.o.PairID = p
                \/ can' # can /\ eng' = eng /\ can.foundOrder.PairID = p
       /\ MatchDone =>
            \A k \in 1..Len(eng'.matchResults) :
                eng'.matchResults[k].targetOrder.PairID = eng.o.PairID]_vars

\* matchOrder filled an order of its pair while an order of another account
\* rests on the same side at the same price for the other pair
C27_Witness ==
    /\ eng.pc = "create"
    /\ Len(eng.matchResults) > 0
    /\ \E p \in Pairs \ {eng.o.PairID} :
         LET level == ScannedLevel(askTreesMap, bidTreesMap, [eng.o EXCEPT !.PairID = p])
         IN  \E i \in 1..Len(level) : level[i].AccountID # eng.o.AccountID

\* ---------------------------------------------------------------- crossing
\* A resting bid and a resting ask of one pair, of different accounts, with
\* the bid's price at or above the ask's.
CrossedPair(ask, bid, p) ==
    \E pb \in DOMAIN Levels(bid, p), pa \in DOMAIN Levels(ask, p) :
        /\ pb >= pa
        /\ \E i \in 1..Len(bid[p][pb]), j \in 1..Len(ask[p][pa]) :
              bid[p][pb][i].AccountID # ask[p][pa][j].AccountID

\* C28: whenever the match loop has completed a processing step and waits for
\* the next order, no pair has a resting bid and a resting ask of different
\* accounts with the bid's price at or above the ask's.
C28_UncrossedBook ==
    eng.pc = "recv" => \A p \in Pairs : ~CrossedPair(askTreesMap, bidTreesMap, p)

\* ---------------------------------------------------------------- liveness
\* A step of the match loop goroutine other than its wait for the lock; at
\* each position of the loop at most one of these is enabled.
LoopStep ==
    \/ Receive
    \/ MatchStep
    \/ CreateOrderOk
    \/ InsertStep
    \/ TargetHitOk

\* The one-pair book under fair scheduling. The match loop goroutine keeps
\* running and the store answers every call (weak fairness of the loop's
\* steps, CreateOrder and AddEvent among them), GetOrders returns, and a Lock
\* that waits on the RWMutex is not overtaken by new readers for ever (strong
\* fairness of the loop's Lock).
SpecLive ==
    /\ Init
    /\ [][NextSnap]_vars
    /\ WF_vars(LoopStep)
    /\ SF_vars(EngineLock)
    /\ WF_vars(ReaderReturn)

\* The submission stamped c is blocked in AddOrder on the channel.
Pending(c) == \E o \in orderProcessingChannel : o.CreatedAt = c

\* The loop has received the submission stamped c, so its AddOrder has returned.
Received(c) == eng.o.CreatedAt = c /\ ~Pending(c)

\* The loop has finished the processing step of the submission stamped c.
Completed(c) == Received(c) /\ eng.pc = "recv"

\* C29: every submission blocked in AddOrder is eventually received by the
\* match loop, and the loop eventually finishes its processing step.
C29_SubmissionLiveness ==
    \A c \in 1..MaxRequests : Pending(c) ~> Completed(c)

\* the loop finished an order that faced a level of own-account orders only,
\* while a snapshot held the read lock and a cancellation was under way
C29_Witness ==
    /\ \E c \in 2..MaxRequests : Completed(c)
    /\ LET level == ScannedLevel(askTreesMap, bidTreesMap, eng.o)
       IN  /\ Len(level) > 0
           /\ OtherOrders(level, eng.o) = <<>>
    /\ rdr = "rlocked"
    /\ can.pc # "idle"

\* ---------------------------------------------------------------- deadlock
\* The match loop waits in b.mu.Lock().
LoopWaitsForLock == eng.pc \in {"matchLock", "insertLock"}

\* C30: the match loop holds the write lock only inside matchOrder and
\* insertOrder, never while it waits on the channel or for the lock itself;
\* the read lock is held only by a GetOrders under way and never together
\* with the write lock; and nobody waits for ever: a loop waiting for the
\* lock can take it or its holder can return, a held write lock can be
\* released, a sender on the channel meets a loop that can receive or is at
\* work on another order, and a CancellOrder under way has a next step.
C30_DeadlockFreedom ==
    /\ mu.writer = "engine" <=> eng.pc \in {"match", "insert"}
    /\ mu.readers = (IF rdr = "rlocked" THEN 1 ELSE 0)
    /\ ~(mu.writer # "none" /\ mu.readers > 0)
    /\ LoopWaitsForLock => (ENABLED EngineLock \/ ENABLED ReaderReturn)
    /\ mu.writer # "none" => (ENABLED MatchStep \/ ENABLED InsertStep)
    /\ orderProcessingChannel # {} =>
          (ENABLED Receive \/ ENABLED EngineLock \/ ENABLED ReaderReturn \/ ENABLED LoopStep)
    /\ can.pc # "idle" =>
          ENABLED (CancelLocate \/ CancelDelete \/ CancelEventOk \/ CancelRemove)

\* the loop waits for the lock that a snapshot holds, with a sender blocked
\* on the channel and a cancellation under way
C30_Witness ==
    /\ LoopWaitsForLock
    /\ rdr = "rlocked"
    /\ orderProcessingChannel # {}
    /\ can.pc # "idle"

====
